---- MODULE Spec2Model ----
(***************************************************************************)
(* Model of the serde_flat_path attribute macro (src/src/lib.rs).          *)
(*                                                                         *)
(* The macro is a source-to-source transform: `flat_path` receives an item *)
(* (struct, enum or anything else), rewrites the fields that carry a       *)
(* #[flat_path(path = [...])] attribute and emits adapter modules.  The    *)
(* generated code is then run by the host framework (serde): the emitted   *)
(* `serialize` / `deserialize` functions and the derived impls of the      *)
(* generated wrapper structs are modelled by the Serialize / Deserialize   *)
(* actions.                                                                *)
(***************************************************************************)
EXTENDS Integers, Sequences, FiniteSets, TLC

(***************************************************************************)
(* Bounds of the input space.                                              *)
(***************************************************************************)
MaxPathLen == 3
MaxAttrs == 3
MaxFields == 3
MaxVariants == 3

Keys == {"a", "b"}
Values == {0, 1}
FieldIdents == <<"x", "y", "z", "w", "u">>
VariantIdents == <<"A", "B", "C", "D", "E">>

NoIdent == "None"
NoSpan == <<>>

SeqsUpTo(S, n) == UNION {[1..k -> S] : k \in 0..n}
SeqsFromTo(S, m, n) == UNION {[1..k -> S] : k \in m..n}

(***************************************************************************)
(* syn data: attributes, fields, items.                                    *)
(* An attribute is [kind, tok, path, rename, with, span]: kind is the      *)
(* attribute's path ("flat_path", "serde", "doc"), tok its argument for a  *)
(* user-written serde attribute, path the key list of a flat_path          *)
(* attribute, rename/with the arguments of the generated serde attribute,  *)
(* span its location <<variant, field, attribute>> in the input.           *)
(***************************************************************************)
Attr(kind, tok, path, span) ==
    [kind |-> kind, tok |-> tok, path |-> path, rename |-> "", with |-> <<>>, span |-> span]

\* kinds of attribute a field may carry in the input: "flat_path",
\* two distinct serde customizations and one unrelated attribute
RichKinds == {"flat_path", "serde:default", "serde:skip", "doc"}

AttrOfKind(k, p, span) ==
    CASE k = "flat_path"     -> Attr("flat_path", "", p, span)
      [] k = "serde:default" -> Attr("serde", "default", <<>>, span)
      [] k = "serde:skip"    -> Attr("serde", "skip", <<>>, span)
      [] OTHER               -> Attr("doc", "doc", <<>>, span)

\* a field at position f of variant v (v = 0 for a struct) whose attributes
\* have the kinds ks, every flat_path attribute carrying the path p
MkField(ident, ks, p, v, f) ==
    [ident |-> ident,
     attrs |-> [a \in 1..Len(ks) |-> AttrOfKind(ks[a], p, <<v, f, a>>)],
     span  |-> <<v, f>>]

MkFields(shape, list) == [shape |-> shape, list |-> list]
UnitFields == MkFields("Unit", <<>>)

MkStruct(ident, fields) ==
    [kind |-> "struct", ident |-> ident, fields |-> fields, variants |-> <<>>]
MkEnum(ident, variants) ==
    [kind |-> "enum", ident |-> ident, fields |-> UnitFields, variants |-> variants]
OtherItem ==
    [kind |-> "other", ident |-> "f", fields |-> UnitFields, variants |-> <<>>]

(***************************************************************************)
(* The bounded input space.                                                *)
(* Rich items: a struct with one field, or an enum with one such variant,  *)
(* carrying any attribute list of at most MaxAttrs attributes and any path *)
(* of at most MaxPathLen keys.                                             *)
(* Plain items: structs of up to MaxFields fields and enums of up to       *)
(* MaxVariants variants whose fields carry one of a few attribute lists    *)
(* (none, a customization, one annotation, both, a duplicate annotation).  *)
(***************************************************************************)
Paths == SeqsUpTo(Keys, MaxPathLen)
PlainPath == <<"a", "b">>
PlainKindSeqs ==
    {<<>>, <<"serde:default">>, <<"flat_path">>,
     <<"serde:default", "flat_path">>, <<"flat_path", "flat_path">>}

RichStruct(named, ks, p) ==
    MkStruct("S", MkFields(IF named THEN "Named" ELSE "Unnamed",
                           <<MkField(IF named THEN FieldIdents[1] ELSE NoIdent, ks, p, 0, 1)>>))

\* a struct of Len(kss) fields, named by FieldIdents or positional
PlainStruct(named, kss) ==
    MkStruct("S", MkFields(IF named THEN "Named" ELSE "Unnamed",
                           [f \in 1..Len(kss) |->
                               MkField(IF named THEN FieldIdents[f] ELSE NoIdent,
                                       kss[f], PlainPath, 0, f)]))

UnitStruct == MkStruct("S", UnitFields)

\* the shapes of a variant: unit, one named field, one positional field
VariantShapes ==
    {<<"Unit", <<>>>>}
      \cup {<<"Named", ks>> : ks \in PlainKindSeqs}
      \cup {<<"Unnamed", ks>> : ks \in PlainKindSeqs}

VariantFields(sh, v) ==
    IF sh[1] = "Unit" THEN UnitFields
    ELSE MkFields(sh[1],
                  <<MkField(IF sh[1] = "Named" THEN FieldIdents[1] ELSE NoIdent,
                            sh[2], PlainPath, v, 1)>>)

PlainEnum(shs) ==
    MkEnum("E", [v \in 1..Len(shs) |->
                    [ident |-> VariantIdents[v], fields |-> VariantFields(shs[v], v)]])

\* two variants with the same field name, both flattened: the first with
\* any attribute list and path, the second with the plain path
RichEnum(ks, p) ==
    MkEnum("E", <<[ident |-> VariantIdents[1],
                   fields |-> MkFields("Named", <<MkField(FieldIdents[1], ks, p, 1, 1)>>)],
                  [ident |-> VariantIdents[2],
                   fields |-> VariantFields(<<"Named", <<"flat_path">>>>, 2)]>>)

\* the macro invocation: its own argument tokens and the item it is put on
Invocation(attr, item) == [attr |-> attr, item |-> item]

\* the macro's argument tokens are empty, or (for a few items) not
InputChoice(in) ==
    \/ \E named \in BOOLEAN, ks \in SeqsUpTo(RichKinds, MaxAttrs), p \in Paths :
          in = Invocation(<<>>, RichStruct(named, ks, p))
    \/ \E named \in BOOLEAN, kss \in SeqsFromTo(PlainKindSeqs, 1, MaxFields) :
          in = Invocation(<<>>, PlainStruct(named, kss))
    \/ \E shs \in SeqsUpTo(VariantShapes, MaxVariants) :
          in = Invocation(<<>>, PlainEnum(shs))
    \/ \E ks \in SeqsUpTo(RichKinds, MaxAttrs), p \in Paths :
          in = Invocation(<<>>, RichEnum(ks, p))
    \/ \E attr \in {<<>>, <<"arg">>}, item \in {UnitStruct, OtherItem} :
          in = Invocation(attr, item)

(***************************************************************************)
(* Collaborators that live outside lib.rs (mod attr, mod util).            *)
(***************************************************************************)
\* extract_attributes_by_path(&mut attrs, name): removes from attrs, and
\* returns in their order, the attributes whose path is `name`
extract_attributes_by_path(attrs, name) == SelectSeq(attrs, LAMBDA a : a.kind = name)
\* what extract_attributes_by_path leaves in attrs
retained_attributes(attrs, name) == SelectSeq(attrs, LAMBDA a : a.kind # name)

EmptyPath == "flat_path needs at least one path segment"
NoError == [msg |-> "", span |-> NoSpan]
Error(span, msg) == [msg |-> msg, span |-> span]

\* parse_attr(attr): the ordered key list of the annotation, or EmptyPath
parse_attr(attr) ==
    IF attr.path = <<>>
    THEN [err |-> Error(attr.span, EmptyPath), path |-> <<>>]
    ELSE [err |-> NoError, path |-> attr.path]

\* placeholder_idents(n): the identifiers _0 .. _(n-1)
placeholder_idents(n) == [i \in 1..n |-> "_" \o ToString(i - 1)]

(***************************************************************************)
(* The diagnostics of lib.rs.                                              *)
(***************************************************************************)
DuplicateAnnotation == "flat_path can only be applied once"
TupleField == "Unable to apply flat_path to tuple fields"
UnnamedFieldNotSupported == "Unable to apply flat_path to unnamed tuple fields"
UnsupportedShape == "Can not be applied to this type of member"
CallSite == <<"call_site">>

(***************************************************************************)
(* Generated tokens.  A module list is the flattened form of nested `mod`  *)
(* items: one entry per module, `path` its path from the crate root of the *)
(* expansion, `structs` the wrapper structs it defines, `fns` whether it   *)
(* defines serialize/deserialize, `chain` the number of `._0` accesses in  *)
(* its deserialize.                                                        *)
(***************************************************************************)
Namespace(name) == [path |-> <<name>>, structs |-> <<>>, fns |-> FALSE, chain |-> 0]

\* quote!( mod name { tokens } )
Mod(name, tokens) ==
    <<Namespace(name)>> \o [i \in 1..Len(tokens) |-> [tokens[i] EXCEPT !.path = <<name>> \o @]]

\* a generated wrapper:  struct ident<T> { #[serde(rename = rename)] attrs* _0: inner }
Link(ident, rename, attrs, inner) ==
    [ident |-> ident, rename |-> rename, attrs |-> attrs, inner |-> inner]

FlatField(ident, path, serde_attributes) ==
    [ident |-> ident, flat_path |-> path, serde_attributes |-> serde_attributes]

\* variant of ChainLength: one access fewer than there are wrappers
ChainLengthShort(path_length) == path_length - 1

\* the number of `_0` accesses of the generated deserialize
ChainLength(path_length) == path_length

\* the customizations attached to the wrapper at `index` (0-based) of a
\* chain of path_length wrappers
LinkAttributes(index, path_length, serde_attributes) ==
    IF index = path_length - 1 THEN serde_attributes ELSE <<>>

\* variant of ChainLink: every wrapper is renamed to the last key
ChainLinkLastKey(index, path_length, placeholders, path, serde_attributes) ==
    Link(placeholders[index + 1],
         path[path_length],
         LinkAttributes(index, path_length, serde_attributes),
         IF index < path_length - 1 THEN placeholders[index + 2] ELSE "T")

\* the wrapper at `index` (0-based): intermediate links wrap the next
\* placeholder, the last one wraps T
ChainLink(index, path_length, placeholders, path, serde_attributes) ==
    Link(placeholders[index + 1],
         path[index + 1],
         LinkAttributes(index, path_length, serde_attributes),
         IF index < path_length - 1 THEN placeholders[index + 2] ELSE "T")

\* FlatField::with_structural_derive.  `path_length - 1` is a usize
\* subtraction and `self.flat_path[..path_length - 1]` a checked slice: with
\* an empty flat_path the first overflows (debug) or the second is out of
\* range (release), a panic in both builds.
with_structural_derive(self) ==
    LET path_length == Len(self.flat_path)
        placeholders == placeholder_idents(path_length)
    IN  IF path_length = 0
        THEN [panic |-> TRUE, structs |-> <<>>, chain |-> 0]
        ELSE [panic |-> FALSE,
              structs |-> [i \in 1..path_length |->
                              ChainLink(i - 1, path_length, placeholders,
                                        self.flat_path, self.serde_attributes)],
              chain |-> ChainLength(path_length)]

generate_serialize_with(self) == with_structural_derive(self)

\* one `pub mod field { contents }` per flat field, in order
generate_flat_path_module(flat_fields) ==
    LET contents == [i \in 1..Len(flat_fields) |-> generate_serialize_with(flat_fields[i])]
    IN  [panic |-> \E i \in 1..Len(flat_fields) : contents[i].panic,
         tokens |-> [i \in 1..Len(flat_fields) |->
                       [path |-> <<flat_fields[i].ident>>,
                        structs |-> contents[i].structs,
                        fns |-> TRUE,
                        chain |-> contents[i].chain]]]

(***************************************************************************)
(* perform_simple_flat_path_addition                                       *)
(***************************************************************************)
\* format!("{}::{}", module_name, field_name), read back as a path
ModuleRef(module_name, field_name) == Append(module_name, field_name)

\* flat_path.remove(0): the removed key, and what stays in flat_path
FirstName(path) == Head(path)
\* variant of RemainingPath: the first key is read but not removed
RemainingPathKept(path) == path
RemainingPath(path) == Tail(path)

\* #[serde(rename = first_name, with = module_ref)]
GeneratedAttribute(first_name, module_ref) ==
    [kind |-> "serde", tok |-> "rename_with", path |-> <<>>,
     rename |-> first_name, with |-> module_ref, span |-> NoSpan]

\* the attributes left on a flattened field
RewrittenAttributes(attrs, first_name, module_ref) ==
    Append(retained_attributes(attrs, "serde"), GeneratedAttribute(first_name, module_ref))

\* the customizations handed to the chain
RelocatedAttributes(attrs) == extract_attributes_by_path(attrs, "serde")

\* whether the loop moves on to the next field without touching this one
SkipsField(flat_path_attributes) == Len(flat_path_attributes) = 0

RECURSIVE FieldLoop(_, _, _, _)
FieldLoop(module_name, fields, i, paths) ==
    IF i > Len(fields)
    THEN [err |-> NoError, fields |-> fields, paths |-> paths]
    ELSE
      LET field == fields[i]
          flat_path_attributes == extract_attributes_by_path(field.attrs, "flat_path")
          attrs == retained_attributes(field.attrs, "flat_path")
          taken == [fields EXCEPT ![i].attrs = attrs]
      IN  IF SkipsField(flat_path_attributes)
          THEN FieldLoop(module_name, taken, i + 1, paths)
          ELSE IF Len(flat_path_attributes) > 1
          THEN [err |-> Error(flat_path_attributes[2].span, DuplicateAnnotation),
                fields |-> taken, paths |-> paths]
          ELSE
            LET parsed == parse_attr(flat_path_attributes[1])
            IN  IF parsed.err # NoError
                THEN [err |-> parsed.err, fields |-> taken, paths |-> paths]
                ELSE IF field.ident = NoIdent
                THEN [err |-> Error(field.span, TupleField), fields |-> taken, paths |-> paths]
                ELSE
                  LET module_ref == ModuleRef(module_name, field.ident)
                      first_name == FirstName(parsed.path)
                      rest == RemainingPath(parsed.path)
                      serde_attributes == RelocatedAttributes(attrs)
                      rewritten == RewrittenAttributes(attrs, first_name, module_ref)
                  IN  FieldLoop(module_name,
                                [fields EXCEPT ![i].attrs = rewritten],
                                i + 1,
                                Append(paths, FlatField(field.ident, rest, serde_attributes)))

perform_simple_flat_path_addition(module_name, fields) ==
    LET done == FieldLoop(module_name, fields, 1, <<>>)
        generated == generate_flat_path_module(done.paths)
    IN  IF done.err # NoError
        THEN [err |-> done.err, panic |-> FALSE, fields |-> done.fields, tokens |-> <<>>]
        ELSE [err |-> NoError, panic |-> generated.panic, fields |-> done.fields,
              tokens |-> generated.tokens]

(***************************************************************************)
(* named_fields, the two handlers and the driver.                          *)
(***************************************************************************)
\* variant of named_fields: unit fields are handed on as an empty list of
\* named fields
named_fields_unit_as_named(fields) ==
    CASE fields.shape = "Unit"  -> [err |-> NoError, some |-> TRUE, list |-> <<>>]
      [] fields.shape = "Named" -> [err |-> NoError, some |-> TRUE, list |-> fields.list]
      [] OTHER ->
           IF \E f \in 1..Len(fields.list) :
                 extract_attributes_by_path(fields.list[f].attrs, "flat_path") # <<>>
           THEN [err |-> Error(fields.list[1].span, UnnamedFieldNotSupported),
                 some |-> FALSE, list |-> <<>>]
           ELSE [err |-> NoError, some |-> FALSE, list |-> <<>>]

\* Ok(None) for unit fields and for tuple fields without annotation, an
\* error for the first annotated tuple field, Ok(Some(list)) for named fields
named_fields(fields) ==
    CASE fields.shape = "Unit"  -> [err |-> NoError, some |-> FALSE, list |-> <<>>]
      [] fields.shape = "Named" -> [err |-> NoError, some |-> TRUE, list |-> fields.list]
      [] OTHER ->
           LET annotated == {f \in 1..Len(fields.list) :
                               extract_attributes_by_path(fields.list[f].attrs, "flat_path") # <<>>}
           IN  IF annotated # {}
               THEN LET first == CHOOSE f \in annotated : \A g \in annotated : f <= g
                    IN  [err |-> Error(fields.list[first].span, UnnamedFieldNotSupported),
                         some |-> FALSE, list |-> <<>>]
               ELSE [err |-> NoError, some |-> FALSE, list |-> <<>>]

\* format_ident!("__serde_flat_path_{}", item.ident)
ModuleName(ident) == "__serde_flat_path_" \o ident

\* the results of flat_path_impl: Ok(tokens), Err(error), or a panic
OkTokens(items, mods) == [status |-> "ok", error |-> NoError, item |-> items, mods |-> mods]
Err(error) == [status |-> "error", error |-> error, item |-> <<>>, mods |-> <<>>]
Panic == [status |-> "panic", error |-> NoError, item |-> <<>>, mods |-> <<>>]

flat_path_struct_impl(item) ==
    LET module_name == ModuleName(item.ident)
        named == named_fields(item.fields)
        module_path == <<module_name>>
        conversions == perform_simple_flat_path_addition(module_path, named.list)
    IN  IF named.err # NoError THEN Err(named.err)
        ELSE IF ~named.some THEN OkTokens(<<item>>, <<>>)
        ELSE IF conversions.err # NoError THEN Err(conversions.err)
        ELSE IF conversions.panic THEN Panic
        ELSE OkTokens(<<[item EXCEPT !.fields.list = conversions.fields]>>,
                      Mod(module_name, conversions.tokens))

RECURSIVE VariantLoop(_, _, _, _)
VariantLoop(item, module_name, i, variant_impls) ==
    IF i > Len(item.variants)
    THEN OkTokens(<<item>>, Mod(module_name, variant_impls))
    ELSE
      LET variant == item.variants[i]
          named == named_fields(variant.fields)
          module_path == <<module_name, variant.ident>>
          conversions == perform_simple_flat_path_addition(module_path, named.list)
      IN  IF named.err # NoError THEN Err(named.err)
          ELSE IF ~named.some THEN OkTokens(<<item>>, <<>>)
          ELSE IF conversions.err # NoError THEN Err(conversions.err)
          ELSE IF conversions.panic THEN Panic
          ELSE VariantLoop([item EXCEPT !.variants[i].fields.list = conversions.fields],
                           module_name, i + 1,
                           variant_impls \o Mod(variant.ident, conversions.tokens))

flat_path_enum_impl(item) == VariantLoop(item, ModuleName(item.ident), 1, <<>>)

flat_path_impl(attr, input) ==
    IF attr # <<>> THEN Panic
    ELSE IF input.kind = "struct" THEN flat_path_struct_impl(input)
    ELSE IF input.kind = "enum" THEN flat_path_enum_impl(input)
    ELSE Err(Error(CallSite, UnsupportedShape))

\* Ok(v) => v, Err(e) => e.to_compile_error(): the diagnostic and nothing else
flat_path(attr, input) == flat_path_impl(attr, input)

(***************************************************************************)
(* The generated code at run time.                                         *)
(* A document made of nested single-key objects is [keys, leaf]: the keys  *)
(* from the outermost object inwards and the encoded value beneath them.   *)
(***************************************************************************)
Leaf(v) == [keys |-> <<>>, leaf |-> v]
Obj(key, doc) == [keys |-> <<key>> \o doc.keys, leaf |-> doc.leaf]

\* every field of an item, with its position
AllFields(item) ==
    {[v |-> 0, f |-> f, field |-> item.fields.list[f]] : f \in 1..Len(item.fields.list)}
      \cup UNION {{[v |-> v, f |-> f, field |-> item.variants[v].fields.list[f]] :
                      f \in 1..Len(item.variants[v].fields.list)} :
                    v \in 1..Len(item.variants)}

IsHook(a) == a.kind = "serde" /\ a.tok = "rename_with"
HookOf(field) == (extract_attributes_by_path(field.attrs, "serde"))[
                    CHOOSE i \in 1..Len(extract_attributes_by_path(field.attrs, "serde")) :
                        IsHook((extract_attributes_by_path(field.attrs, "serde"))[i])]
HasHook(field) == \E i \in 1..Len(field.attrs) : IsHook(field.attrs[i])

\* the emitted fields that are redirected to an adapter
HookedFields(expansion) ==
    IF expansion.item = <<>> THEN {}
    ELSE {e \in AllFields(expansion.item[1]) : HasHook(e.field)}

\* the emitted adapter modules (those defining serialize/deserialize)
AdapterModules(expansion) ==
    {expansion.mods[i] : i \in {j \in 1..Len(expansion.mods) : expansion.mods[j].fns}}

ModuleAt(expansion, path) == CHOOSE m \in AdapterModules(expansion) : m.path = path
Resolves(expansion, path) == \E m \in AdapterModules(expansion) : m.path = path

StructNamed(structs, ident) ==
    structs[CHOOSE i \in 1..Len(structs) : structs[i].ident = ident]
Defines(structs, ident) == \E i \in 1..Len(structs) : structs[i].ident = ident

\* the expansion is accepted by the compiler: no flat_path attribute is
\* left on a field, every `with` path names an emitted adapter module, and
\* every wrapper type a module mentions is defined in it
Compiles(expansion) ==
    /\ expansion.status = "ok"
    /\ \A e \in AllFields(expansion.item[1]) :
          /\ extract_attributes_by_path(e.field.attrs, "flat_path") = <<>>
          /\ HasHook(e.field) => Resolves(expansion, HookOf(e.field).with)
    /\ \A m \in AdapterModules(expansion) :
          /\ Defines(m.structs, "_0")
          /\ \A i \in 1..Len(m.structs) :
                m.structs[i].inner = "T" \/ Defines(m.structs, m.structs[i].inner)

\* #[derive(Serialize)] of the wrapper `ident`: one object with the single
\* key `rename`, holding the encoding of the wrapped `_0`
RECURSIVE derive_serialize(_, _, _)
derive_serialize(structs, ident, value) ==
    IF ident = "T" THEN Leaf(value)
    ELSE LET st == StructNamed(structs, ident)
         IN  Obj(st.rename, derive_serialize(structs, st.inner, value))

\* the generated serialize: the reference to T is reinterpreted as a
\* reference to _0<T> (each wrapper is repr(transparent)) and encoded
adapter_serialize(module, value) == derive_serialize(module.structs, "_0", value)

\* #[derive(Deserialize)] of the wrapper `ident`: [ok, depth, val], val
\* wrapped in `depth` wrapper structs
RECURSIVE derive_deserialize(_, _, _)
derive_deserialize(structs, ident, doc) ==
    IF ident = "T"
    THEN [ok |-> doc.keys = <<>>, depth |-> 0, val |-> doc.leaf]
    ELSE LET st == StructNamed(structs, ident)
             inner == derive_deserialize(structs, st.inner, [doc EXCEPT !.keys = Tail(@)])
         IN  IF doc.keys = <<>> \/ Head(doc.keys) # st.rename
             THEN [ok |-> FALSE, depth |-> 0, val |-> doc.leaf]
             ELSE [inner EXCEPT !.depth = @ + 1]

\* the generated deserialize: decode _0<T>, then read `._0` chain times;
\* the result is a T only if that unwraps every wrapper
adapter_deserialize(module, doc) ==
    LET value == derive_deserialize(module.structs, "_0", doc)
    IN  [ok |-> value.ok, depth |-> value.depth - module.chain, val |-> value.val]

\* the host framework's handling of a field with rename/with
field_serialize(expansion, hook, value) ==
    Obj(hook.rename, adapter_serialize(ModuleAt(expansion, hook.with), value))
field_deserialize(expansion, hook, doc) ==
    IF doc.keys = <<>> \/ Head(doc.keys) # hook.rename
    THEN [ok |-> FALSE, depth |-> 0, val |-> doc.leaf]
    ELSE adapter_deserialize(ModuleAt(expansion, hook.with), [doc EXCEPT !.keys = Tail(@)])

(***************************************************************************)
(* The state machine.                                                      *)
(***************************************************************************)
VARIABLES input, pc, out, sel, value, wire, decoded
vars == <<input, pc, out, sel, value, wire, decoded>>

NoOutput == [status |-> "none", error |-> NoError, item |-> <<>>, mods |-> <<>>]
NoSel == [v |-> 0, f |-> 0]
NoDoc == Leaf(0)
NoValue == [ok |-> FALSE, depth |-> 0, val |-> 0]

Init ==
    /\ InputChoice(input)
    /\ pc = "input"
    /\ out = NoOutput
    /\ sel = NoSel
    /\ value = 0
    /\ wire = NoDoc
    /\ decoded = NoValue

\* the compiler runs the attribute macro on the item
Expand ==
    /\ pc = "input"
    /\ out' = flat_path(input.attr, input.item)
    /\ pc' = "expanded"
    /\ UNCHANGED <<input, sel, value, wire, decoded>>

SelField == CHOOSE e \in HookedFields(out) : e.v = sel.v /\ e.f = sel.f

\* a value of a flattened field is encoded
Serialize ==
    /\ pc = "expanded"
    /\ Compiles(out)
    /\ \E e \in HookedFields(out), val \in Values :
          /\ sel' = [v |-> e.v, f |-> e.f]
          /\ value' = val
          /\ wire' = field_serialize(out, HookOf(e.field), val)
    /\ pc' = "serialized"
    /\ UNCHANGED <<input, out, decoded>>

\* the encoded field is decoded again
Deserialize ==
    /\ pc = "serialized"
    /\ decoded' = field_deserialize(out, HookOf(SelField.field), wire)
    /\ pc' = "deserialized"
    /\ UNCHANGED <<input, out, sel, value, wire>>

Next == Expand \/ Serialize \/ Deserialize

Spec == Init /\ [][Next]_vars

(***************************************************************************)
(* Vocabulary of the properties.                                           *)
(***************************************************************************)
Expanded == pc # "input"
Annotations(field) == extract_attributes_by_path(field.attrs, "flat_path")
Customizations(field) == extract_attributes_by_path(field.attrs, "serde")
InputFields == AllFields(input.item)
InputFieldAt(v, f) == CHOOSE e \in InputFields : e.v = v /\ e.f = f
Positional(e) == e.field.ident = NoIdent
Unannotated == \A e \in InputFields : Annotations(e.field) = <<>>

\* the module the macro is to generate for the input field e
ExpectedModule(e) ==
    IF e.v = 0
    THEN <<ModuleName(input.item.ident), e.field.ident>>
    ELSE <<ModuleName(input.item.ident), input.item.variants[e.v].ident, e.field.ident>>

\* the path of the single annotation of the selected field
SelPath == Annotations(InputFieldAt(sel.v, sel.f).field)[1].path

\* no field of the input is at fault: at most one annotation per field, on
\* named fields only, with at least two keys
WellFormed ==
    /\ input.attr = <<>>
    /\ input.item.kind \in {"struct", "enum"}
    /\ \A e \in InputFields :
          /\ Len(Annotations(e.field)) <= 1
          /\ Annotations(e.field) # <<>> =>
                ~Positional(e) /\ Len(Annotations(e.field)[1].path) >= 2

\* C1: Nesting shape. Whenever a flattened field annotated with a path of
\* N >= 2 keys is encoded, the value lies beneath exactly the keys of the
\* path, outermost first, one single-key object per key.
NestingShape ==
    (pc \in {"serialized", "deserialized"} /\ Len(SelPath) >= 2) =>
        /\ wire.keys = SelPath
        /\ wire.leaf = value

NestingShapeWitness ==
    /\ pc = "serialized"
    /\ wire.keys = <<"a", "b", "a">>
    /\ Customizations(InputFieldAt(sel.v, sel.f).field) # <<>>

\* C2: Round trip. Decoding what the serialize adapter produced returns the
\* value, and in every emitted adapter the number of `_0` accesses of
\* deserialize equals the number of wrappers serialize wraps the value in.
RoundTrip ==
    /\ pc = "deserialized" =>
          /\ decoded.ok
          /\ decoded.depth = 0
          /\ decoded.val = value
    /\ Expanded => \A m \in AdapterModules(out) : m.chain = Len(m.structs)

RoundTripWitness ==
    /\ pc = "deserialized"
    /\ Len(wire.keys) = 3
    /\ value = 1
    /\ decoded.val = 1

\* C3 (as claimed): in a union without faulty fields, a variant without
\* named fields does not affect the others: generation succeeds and every
\* variant with annotated named fields has them rewritten and has its own
\* namespace in the output.
FieldlessVariantSkipped ==
    (Expanded /\ WellFormed /\ input.item.kind = "enum") =>
        /\ out.status = "ok"
        /\ \A e \in InputFields :
              Annotations(e.field) # <<>> =>
                  /\ \E h \in HookedFields(out) : h.v = e.v /\ h.f = e.f
                  /\ \E i \in 1..Len(out.mods) :
                        out.mods[i].path =
                            <<ModuleName(input.item.ident), input.item.variants[e.v].ident>>

\* C4 (as claimed): an annotation on a positional field makes generation
\* fail with UnnamedFieldNotSupported, in a tuple struct and in any variant
\* of a union (stated for inputs whose named fields carry no duplicate).
PositionalAnnotationRejected ==
    (/\ Expanded
     /\ input.attr = <<>>
     /\ \E e \in InputFields : Positional(e) /\ Annotations(e.field) # <<>>
     /\ \A e \in InputFields : Len(Annotations(e.field)) > 1 => Positional(e))
        => /\ out.status = "error"
           /\ out.error.msg = UnnamedFieldNotSupported

\* the first named field carrying more than one annotation
Duplicated == {e \in InputFields : ~Positional(e) /\ Len(Annotations(e.field)) > 1}
FirstDuplicated ==
    CHOOSE e \in Duplicated : \A d \in Duplicated : e.v < d.v \/ (e.v = d.v /\ e.f <= d.f)

\* C5 (as claimed): an unannotated type is emitted unchanged and no
\* namespace is emitted.
UnannotatedIdentical ==
    (Expanded /\ WellFormed /\ Unannotated) =>
        /\ out.status = "ok"
        /\ out.item = <<input.item>>
        /\ out.mods = <<>>

\* the variants of the input all have named fields
AllVariantsNamed ==
    \A v \in 1..Len(input.item.variants) : input.item.variants[v].fields.shape = "Named"

\* C5 (amended): an unannotated type is emitted unchanged, no field is
\* rewritten and no adapter module is emitted; unit records, tuple records
\* and unions with a variant without named fields get no namespace, while a
\* record with named fields gets one empty namespace and a union whose
\* variants all have named fields one empty namespace per variant inside
\* the union's.
UnannotatedUnchanged ==
    (Expanded /\ WellFormed /\ Unannotated) =>
        /\ out.status = "ok"
        /\ out.item = <<input.item>>
        /\ HookedFields(out) = {}
        /\ AdapterModules(out) = {}
        /\ IF input.item.kind = "struct"
           THEN out.mods = IF input.item.fields.shape = "Named"
                           THEN <<Namespace(ModuleName(input.item.ident))>>
                           ELSE <<>>
           ELSE out.mods = IF AllVariantsNamed
                           THEN <<Namespace(ModuleName(input.item.ident))>> \o
                                [v \in 1..Len(input.item.variants) |->
                                    [path |-> <<ModuleName(input.item.ident),
                                                input.item.variants[v].ident>>,
                                     structs |-> <<>>, fns |-> FALSE, chain |-> 0]]
                           ELSE <<>>

UnannotatedWitness ==
    /\ Expanded /\ WellFormed /\ Unannotated
    /\ input.item.kind = "struct"
    /\ input.item.fields.shape = "Named"
    /\ Len(input.item.fields.list) = 2
    /\ \E e \in InputFields : Customizations(e.field) # <<>>
    /\ Len(out.mods) = 1

\* C6 (as claimed): a named field with more than one annotation makes
\* generation fail with DuplicateAnnotation at the second annotation of that
\* field, and nothing is emitted (stated for inputs without an annotated
\* positional field).
DuplicateRejected ==
    (/\ Expanded
     /\ input.attr = <<>>
     /\ Duplicated # {}
     /\ \A e \in InputFields : Positional(e) => Annotations(e.field) = <<>>)
        => /\ out.status = "error"
           /\ out.error = Error(Annotations(FirstDuplicated.field)[2].span, DuplicateAnnotation)
           /\ out.item = <<>>
           /\ out.mods = <<>>

\* C7 (as claimed): the customizations of a flattened field are removed
\* from the emitted field, which keeps the generated attribute as its only
\* serde attribute, and appear in their order on the innermost wrapper of
\* the field's chain and on no other wrapper.
LeafPlacement ==
    (Expanded /\ out.status = "ok") =>
        \A h \in HookedFields(out) :
            LET before == Customizations(InputFieldAt(h.v, h.f).field)
                hook == HookOf(h.field)
            IN  /\ Customizations(h.field) = <<hook>>
                /\ before # <<>> =>
                      /\ Resolves(out, hook.with)
                      /\ LET links == ModuleAt(out, hook.with).structs
                         IN  /\ links # <<>>
                             /\ links[Len(links)].attrs = before
                             /\ \A i \in 1..(Len(links) - 1) : links[i].attrs = <<>>

\* C8 (as claimed): a one-key path on a named field is accepted: generation
\* succeeds, the field is serialized under that key and the value is
\* encoded directly beneath it.
SingleSegmentAccepted ==
    (/\ Expanded
     /\ input.attr = <<>>
     /\ input.item.kind = "struct"
     /\ \E e \in InputFields :
           /\ ~Positional(e)
           /\ Len(Annotations(e.field)) = 1
           /\ Len(Annotations(e.field)[1].path) = 1)
        => /\ out.status = "ok"
           /\ \A h \in HookedFields(out) :
                 /\ HookOf(h.field).rename = Annotations(InputFieldAt(h.v, h.f).field)[1].path[1]
                 /\ Resolves(out, HookOf(h.field).with)
                 /\ ModuleAt(out, HookOf(h.field).with).chain = 0

\* the input field an emitted adapter module belongs to
OwnerOf(m) == CHOOSE e \in InputFields : ~Positional(e) /\ ExpectedModule(e) = m.path
HasOwner(m) == \E e \in InputFields : ~Positional(e) /\ ExpectedModule(e) = m.path
OwnerPath(m) == Annotations(OwnerOf(m).field)[1].path

\* C9 (as claimed): for a path of N keys the chain has N wrappers, wrapper
\* i serialized under key i of the path, and deserialize unwraps N times.
ChainOfN ==
    Expanded =>
        \A m \in AdapterModules(out) :
            /\ HasOwner(m)
            /\ Len(m.structs) = Len(OwnerPath(m))
            /\ \A i \in 1..Len(m.structs) : m.structs[i].rename = OwnerPath(m)[i]
            /\ m.chain = Len(OwnerPath(m))

\* C9 (amended): every chain emitted for a path of N keys has N - 1
\* wrappers _0 .. _(N-2); wrapper i is serialized under key i + 1 of the
\* path (key 0 is the rename of the flattened field itself) and wraps
\* wrapper i + 1, the last one the bare value; deserialize unwraps N - 1
\* times.
ChainOfNMinusOne ==
    Expanded =>
        \A m \in AdapterModules(out) :
            /\ HasOwner(m)
            /\ Len(OwnerPath(m)) >= 2
            /\ Len(m.structs) = Len(OwnerPath(m)) - 1
            /\ \A i \in 1..Len(m.structs) :
                  /\ m.structs[i].ident = "_" \o ToString(i - 1)
                  /\ m.structs[i].rename = OwnerPath(m)[i + 1]
                  /\ m.structs[i].inner =
                        IF i < Len(m.structs) THEN "_" \o ToString(i) ELSE "T"
            /\ m.chain = Len(OwnerPath(m)) - 1

ChainWitness ==
    /\ Expanded
    /\ \E m \in AdapterModules(out) :
          /\ Len(m.structs) = 2
          /\ m.structs[1].rename # m.structs[2].rename
          /\ m.chain = 2

\* C10 (as claimed): whenever generation succeeds, the adapter paths on the
\* emitted fields and the emitted adapter modules correspond one to one.
HooksMatchModules ==
    (Expanded /\ out.status = "ok") =>
        /\ {HookOf(h.field).with : h \in HookedFields(out)} =
              {m.path : m \in AdapterModules(out)}
        /\ Cardinality(HookedFields(out)) = Cardinality(AdapterModules(out))
        /\ Cardinality(AdapterModules(out)) =
              Cardinality({m.path : m \in AdapterModules(out)})

====
